---- MODULE Spec2Model ----
(***************************************************************************)
(* Model of the Wikipedia revision pipeline:                               *)
(*   - modules/download_wiki_revisions.py: the paginated fetcher           *)
(*     (download_page_w_revisions), the revision store layout              *)
(*     (construct_path) and the fetch run (download_revisions);            *)
(*   - modules/wiki_parser.py and modules/claude_wiki_parser.py: the two   *)
(*     section segmenters (extract_sections), the markup normalizer        *)
(*     (clean_wiki_markup) and the assembly of one revision's records      *)
(*     (process_file);                                                     *)
(*   - modules/xml_to_dataframe.py: the assembly of the corpus             *)
(*     (file_paths_to_df);                                                 *)
(*   - modules/preprocess_articles.py: the section evolution tracker       *)
(*     (WikiSectionAnalyzer).                                              *)
(***************************************************************************)
EXTENDS Integers, Sequences, FiniteSets, TLC

VARIABLES
    server,          \* the remote article history: revisions in ascending timestamp order
    edition,         \* the rendering of the revisions' text the server serves during the run
    store,           \* the files under data_dir: path -> file content
    writes,          \* history: path -> number of write_text calls on it
    pc,              \* position of download_revisions: "idle", "request" or "yield"
    since,           \* the watermark of the current (or last) run
    rvcontinue,      \* params["rvcontinue"] of the generator (None when absent)
    buffer,          \* revisions of the current response not yet yielded
    respCont,        \* the continuation cursor of the current response
    requests,        \* history: the cursors carried by the run's requests, in order
    lastResp,        \* history: the last response of the run
    yielded,         \* history: the revisions the generator yielded in this run
    saved_revisions, \* the counter of download_revisions
    outcome,         \* how the last run of download_revisions ended
    error,           \* the exception raised inside the last run (NoError when none)
    runs,            \* history: the number of runs started
    recovering,      \* history: the run repeats, with the same since, a run that a
                     \* transport failure aborted after it had stored revisions
    update,          \* the update argument of the current (or last) run
    derived,         \* the paths construct_path derived (path specification)
    text,            \* the input of the segmenter (segmenter specification)
    parser,          \* the module whose extract_sections has run on text ("none": none yet)
    sections,        \* what extract_sections returned: (name, body) pairs in order
    raw,             \* the input of the normalizer (normalizer specification)
    cleanings,       \* what clean_wiki_markup returned: on raw, then on its own output
    file_paths,      \* the listing of stored revisions, each given by its file's content
    file_data,       \* what process_file returned for the files processed so far
    df,              \* the records file_paths_to_df returned
    assembly,        \* position of file_paths_to_df: "idle", "processing", "done", "raised"
    rev_file,        \* the lines of the file extract_sections_from_wiki_xml reads
    scanned,         \* what it returned: None before the call, else the (title, level) list
    base_dir,        \* the month directories of the article's store, sorted by name, each
                     \* with the names and the lines of its files
    visited,         \* the number of month directories analyze_section_evolution has passed
    section_tracker, \* its tracker: the set of (title, date, level) it has recorded
    timeline,        \* its timeline: the dates recorded, in order
    conc_update,     \* concurrent runs: the update argument of each run
    conc_pc,         \* concurrent runs: where each run is, [step, at] (at: the revision)
    conc_store,      \* concurrent runs: the revision files of the article, file -> content
    conc_writes      \* history: file -> the runs whose write_text opened it

fetchVars == <<server, edition, store, writes, pc, since, rvcontinue, buffer, respCont,
               requests, lastResp, yielded, saved_revisions, outcome, error, runs,
               recovering, update>>
pathVars == <<derived>>
segVars == <<text, parser, sections>>
normVars == <<raw, cleanings>>
asmVars == <<file_paths, file_data, df, assembly>>
scanVars == <<rev_file, scanned>>
evoVars == <<base_dir, visited, section_tracker, timeline>>
concVars == <<conc_update, conc_pc, conc_store, conc_writes>>
moreVars == <<normVars, asmVars, scanVars, evoVars, concVars>>
vars == <<fetchVars, pathVars, segVars, moreVars>>

\* An absent value (Python's None, a missing attribute): the empty sequence. A present
\* value v is <<v>>.
None == <<>>
Some(v) == <<v>>
ValueOf(o) == o[1]

\* The components a specification leaves alone stay in these states.
NormIdle == raw = <<>> /\ cleanings = <<>>
AsmIdle == file_paths = <<>> /\ file_data = <<>> /\ df = <<>> /\ assembly = "idle"
ScanIdle == rev_file = <<>> /\ scanned = <<>>
EvoIdle == base_dir = <<>> /\ visited = 0 /\ section_tracker = {} /\ timeline = <<>>
ConcIdle == conc_update = <<>> /\ conc_pc = <<>> /\ conc_store = <<>> /\ conc_writes = <<>>
MoreIdle == NormIdle /\ AsmIdle /\ ScanIdle /\ EvoIdle /\ ConcIdle

\* ---------------------------------------------------------------- bounds
MaxRevs == 3
PageSize == 2
MaxRuns == 2
MaxDerived == 2
MaxChunks == 5
MaxLinkChunks == 5
MaxMarkupChunks == 3
MaxPlainChunks == 4
MaxLines == 5
MaxFiles == 3
MaxLineChunks == 5
MaxScanLines == 3
MaxMonthFiles == 2
MaxConcRuns == 2
MaxConcRevs == 2

\* ---------------------------------------------------------------- values
\* A path is the sequence of its components, a component a sequence of characters
\* (a name that is never taken apart is one element).
DATA_DIR == << <<"data">> >>
\* Page titles, split at "/" as the path join splits them: Xi_Jinping, AC, AC/DC.
Articles == { << <<"Xi_Jinping">> >>, << <<"AC">> >>, << <<"AC">>, <<"DC">> >> }
Page == << <<"Xi_Jinping">> >>
Editions == {"t1", "t2"}
Shapes == {"ok", "no_timestamp", "no_revid"}

\* The instant of the i-th revision of a history: 2023-01, 2023-11, 2023-11, 2024-01,
\* 2024-01, 2024-11, ... (two revisions may share an instant).
InstantAt(i) ==
    LET k == i \div 2
    IN  [year |-> 2023 + (k \div 2), month |-> IF k % 2 = 0 THEN 1 ELSE 11, day |-> 5]

Epoch == InstantAt(1)

\* datetime comparison: a >= b
DtGeq(a, b) ==
    \/ a.year > b.year
    \/ a.year = b.year /\ a.month > b.month
    \/ a.year = b.year /\ a.month = b.month /\ a.day >= b.day

\* ---------------------------------------------------------------- the revision XML
\* A <rev> element as the generator yields it (str(rev)): its attributes and text.
RevXml(id, ts, body, shape) ==
    [revid     |-> IF shape = "no_revid" THEN None ELSE Some(id),
     timestamp |-> IF shape = "no_timestamp" THEN None ELSE Some(ts),
     text      |-> body]

\* A raised ValueError, as the result of the functions below.
ValueError == <<>>
Raised(x) == x = ValueError

\* rev_tag.get(attribute): <<value>>, or ValueError when the attribute is missing
_extract_attribute(rev, attribute) ==
    IF rev[attribute] = None THEN ValueError ELSE rev[attribute]

find_timestamp(revision) == _extract_attribute(revision, "timestamp")

extract_id(revision) == _extract_attribute(revision, "revid")

\* str(n) for n >= 0, as a sequence of digit characters
DigitChars == <<"0", "1", "2", "3", "4", "5", "6", "7", "8", "9">>
RECURSIVE str(_)
str(n) == IF n < 10 THEN <<DigitChars[n + 1]>>
          ELSE str(n \div 10) \o <<DigitChars[(n % 10) + 1]>>

RECURSIVE zfill(_, _)
zfill(s, width) == IF Len(s) >= width THEN s ELSE zfill(<<"0">> \o s, width)

MonthWidth == 2

\* The path with the month not padded to two digits.
construct_path_nopad(page_name, save_dir, wiki_revision) ==
    LET revision_id == extract_id(wiki_revision)
        timestamp == find_timestamp(wiki_revision)
    IN  IF Raised(revision_id) \/ Raised(timestamp) THEN ValueError
        ELSE save_dir \o page_name \o
             <<str(ValueOf(timestamp).year), str(ValueOf(timestamp).month),
               ValueOf(revision_id) \o <<".xml">> >>

\* save_dir / page_name / year / month / f"{revision_id}.xml", as its components
construct_path(page_name, save_dir, wiki_revision) ==
    LET revision_id == extract_id(wiki_revision)
        timestamp == find_timestamp(wiki_revision)
    IN  IF Raised(revision_id) \/ Raised(timestamp) THEN ValueError
        ELSE LET year == str(ValueOf(timestamp).year)
                 month == zfill(str(ValueOf(timestamp).month), MonthWidth)
             IN  save_dir \o page_name \o
                 <<year, month, ValueOf(revision_id) \o <<".xml">> >>

\* ---------------------------------------------------------------- the remote API
\* The revision id of the i-th revision of the history.
RevIdAt(i) == str(100 + i)

\* The histories the server may hold: MaxRevs revisions with distinct ids, ascending
\* in timestamp (rvdir=newer), at most one of them rendered without an attribute.
ServerHistories ==
    {h \in [1..MaxRevs -> [id : {RevIdAt(i) : i \in 1..MaxRevs},
                           ts : {InstantAt(i) : i \in 1..MaxRevs}, shape : Shapes]] :
        /\ \A i \in 1..MaxRevs : h[i].id = RevIdAt(i) /\ h[i].ts = InstantAt(i)
        /\ Cardinality({i \in 1..MaxRevs : h[i].shape # "ok"}) <= 1}

\* The watermarks a run may be given.
Sinces == {InstantAt(i) : i \in 1..(MaxRevs + 1)}

\* The first position whose timestamp is >= rvstart (Len + 1 when there is none).
ExactStart(h, rvstart) ==
    IF \E i \in 1..Len(h) : DtGeq(h[i].ts, rvstart)
    THEN CHOOSE i \in 1..Len(h) :
            /\ DtGeq(h[i].ts, rvstart)
            /\ \A j \in 1..(i - 1) : ~DtGeq(h[j].ts, rvstart)
    ELSE Len(h) + 1

\* How many revisions before rvstart the server may still return at the boundary.
RvstartSlack == 1

Max(a, b) == IF a >= b THEN a ELSE b
Min(a, b) == IF a <= b THEN a ELSE b

\* The positions a first request (no cursor) may start at.
ServerStarts(h, rvstart) ==
    Max(1, ExactStart(h, rvstart) - RvstartSlack)..ExactStart(h, rvstart)

\* The <rev> element the server renders for position i of the history.
Rendered(h, i, ed) == RevXml(h[i].id, h[i].ts, ed, h[i].shape)

\* The responses to a request carrying cursor (a position, or None) and rvstart:
\* a page of 0..PageSize revisions from the position on, and the cursor of the rest.
Responses(h, ed, cursor, rvstart) ==
    LET starts == IF cursor = None THEN ServerStarts(h, rvstart) ELSE {ValueOf(cursor)}
    IN  UNION { { [revisions |-> [i \in 1..n |-> Rendered(h, s + i - 1, ed)],
                   cont |-> IF s + n <= Len(h) THEN Some(s + n) ELSE None]
                  : n \in 0..Min(PageSize, Len(h) - s + 1) }
              : s \in starts }

\* ---------------------------------------------------------------- the store
\* page_directory.exists(): a directory exists once a file was written under it
IsPrefix(a, b) == Len(a) <= Len(b) /\ SubSeq(b, 1, Len(a)) = a

\* data_dir / page
PageDirectory(page) == DATA_DIR \o page

DirExists(st, page) == \E p \in DOMAIN st : IsPrefix(PageDirectory(page), p)

\* revision_path.exists()
PathExists(st, path) == path \in DOMAIN st

\* revision_path.write_text(wiki_revision)
WriteText(st, path, content) ==
    [p \in (DOMAIN st) \cup {path} |-> IF p = path THEN content ELSE st[p]]

CountWrite(w, path) ==
    [p \in (DOMAIN w) \cup {path} |-> IF p = path
                                      THEN (IF p \in DOMAIN w THEN w[p] ELSE 0) + 1
                                      ELSE w[p]]

\* ---------------------------------------------------------------- download_revisions
NoError == "none"
Exceptions == {"NotFound", "Transport", "Malformed"}

\* except Exception as e: every exception of the run is caught and printed
Caught(e) == e \in Exceptions

NoResp == [kind |-> "none", n |-> 0, cont |-> None]

\* The end of download_revisions: "Done!" is printed, or the except branch prints the
\* error; either way the function returns normally unless the exception is not caught.
Finish(e) ==
    /\ pc' = "idle"
    /\ error' = e
    /\ outcome' = IF e = NoError THEN "done"
                  ELSE IF Caught(e) THEN "error_printed" ELSE "raised"
    /\ buffer' = <<>>
    /\ respCont' = None

\* The call that goes on to download whatever the store holds.
SkipsDownload_never(upd, st, page) == FALSE

\* if not update and page_directory.exists()
SkipsDownload(upd, st, page) == ~upd /\ DirExists(st, page)

\* download_revisions(page, data_dir, since, update) is called.
Start(s, u, ed) ==
    /\ pc = "idle"
    /\ runs < MaxRuns
    /\ runs' = runs + 1
    /\ recovering' = (error = "Transport" /\ since = s /\ DOMAIN store # {})
    /\ since' = s
    /\ update' = u
    /\ edition' = ed
    /\ rvcontinue' = None
    /\ requests' = <<>>
    /\ lastResp' = NoResp
    /\ yielded' = <<>>
    /\ saved_revisions' = 0
    /\ error' = NoError
    /\ buffer' = <<>>
    /\ respCont' = None
    /\ IF SkipsDownload(u, store, Page)
       THEN /\ pc' = "idle"
            /\ outcome' = "skipped"
       ELSE /\ pc' = "request"
            /\ outcome' = "running"
    /\ UNCHANGED <<server, store, writes>>

\* S.get fails, or raise_for_status raises: the run is aborted.
RequestFails ==
    /\ pc = "request"
    /\ requests' = Append(requests, rvcontinue)
    /\ lastResp' = [kind |-> "failure", n |-> 0, cont |-> None]
    /\ Finish("Transport")
    /\ UNCHANGED <<server, edition, store, writes, since, rvcontinue, yielded,
                   saved_revisions, runs, recovering, update>>

\* The response reports the page as missing: ValueError.
RequestMissing ==
    /\ pc = "request"
    /\ requests' = Append(requests, rvcontinue)
    /\ lastResp' = [kind |-> "missing", n |-> 0, cont |-> None]
    /\ Finish("NotFound")
    /\ UNCHANGED <<server, edition, store, writes, since, rvcontinue, yielded,
                   saved_revisions, runs, recovering, update>>

\* if not revisions: break
EndsOnPage(revisions, cont) == revisions = <<>>

\* The response holds a page: no revisions ends the generator, else they are yielded.
RequestPage ==
    /\ pc = "request"
    /\ \E resp \in Responses(server, edition, rvcontinue, since) :
          /\ requests' = Append(requests, rvcontinue)
          /\ lastResp' = [kind |-> "page", n |-> Len(resp.revisions), cont |-> resp.cont]
          /\ IF EndsOnPage(resp.revisions, resp.cont)
             THEN Finish(NoError)
             ELSE /\ pc' = "yield"
                  /\ buffer' = resp.revisions
                  /\ respCont' = resp.cont
                  /\ UNCHANGED <<outcome, error>>
    /\ UNCHANGED <<server, edition, store, writes, since, rvcontinue, yielded,
                   saved_revisions, runs, recovering, update>>

\* The watermark test with > for >=.
PassesWatermark_strict(ts, s) == ~DtGeq(s, ts)

\* if revision_timestamp >= since
PassesWatermark(ts, s) == DtGeq(ts, s)

\* The write without the existence check.
ShouldWrite_always(st, path) == TRUE

\* if not revision_path.exists()
ShouldWrite(st, path) == ~PathExists(st, path)

\* The continuation cursor not carried into the next request.
NextCursor_dropped(cont) == None

\* params["rvcontinue"] = cont.get("rvcontinue")
NextCursor(cont) == cont

\* The generator resumes after the consumer's loop body: the next revision of the
\* page, the next request, or the end.
Resume ==
    IF Tail(buffer) # <<>>
    THEN /\ buffer' = Tail(buffer)
         /\ UNCHANGED <<pc, rvcontinue, respCont, outcome, error>>
    ELSE IF respCont # None
    THEN /\ rvcontinue' = NextCursor(respCont)
         /\ pc' = "request"
         /\ buffer' = <<>>
         /\ respCont' = None
         /\ UNCHANGED <<outcome, error>>
    ELSE /\ Finish(NoError)
         /\ UNCHANGED <<rvcontinue>>

\* The exception the loop body raises on wiki_revision (NoError when none):
\* find_timestamp raises first; construct_path is reached only past the watermark test.
BodyRaises(wiki_revision, s) ==
    IF Raised(find_timestamp(wiki_revision)) THEN "Malformed"
    ELSE IF ~PassesWatermark(ValueOf(find_timestamp(wiki_revision)), s) THEN NoError
    ELSE IF Raised(construct_path(Page, DATA_DIR, wiki_revision)) THEN "Malformed"
    ELSE NoError

\* One revision is yielded and the loop body of download_revisions handles it.
Handle ==
    /\ pc = "yield"
    /\ LET wiki_revision == Head(buffer)
           revision_timestamp == find_timestamp(wiki_revision)
           revision_path == construct_path(Page, DATA_DIR, wiki_revision)
           raised == BodyRaises(wiki_revision, since)
       IN  /\ yielded' = Append(yielded, wiki_revision)
           /\ IF raised # NoError
              THEN /\ UNCHANGED <<store, writes, saved_revisions, rvcontinue>>
                   /\ Finish(raised)
              ELSE IF ~PassesWatermark(ValueOf(revision_timestamp), since)
              THEN /\ UNCHANGED <<store, writes, saved_revisions>>
                   /\ Resume
              ELSE IF ShouldWrite(store, revision_path)
              THEN /\ store' = WriteText(store, revision_path, wiki_revision)
                   /\ writes' = CountWrite(writes, revision_path)
                   /\ saved_revisions' = saved_revisions + 1
                   /\ Resume
              ELSE /\ UNCHANGED <<store, writes, saved_revisions>>
                   /\ Resume
    /\ UNCHANGED <<server, edition, since, requests, lastResp, runs, recovering, update>>

EmptyFn == [x \in {} |-> 0]

FetchInit ==
    /\ server \in ServerHistories
    /\ edition = CHOOSE ed \in Editions : TRUE
    /\ store = EmptyFn
    /\ writes = EmptyFn
    /\ pc = "idle"
    /\ since = Epoch
    /\ rvcontinue = None
    /\ buffer = <<>>
    /\ respCont = None
    /\ requests = <<>>
    /\ lastResp = NoResp
    /\ yielded = <<>>
    /\ saved_revisions = 0
    /\ outcome = "none"
    /\ error = NoError
    /\ runs = 0
    /\ recovering = FALSE
    /\ update = FALSE

PathIdle == derived = {}
SegIdle == text = <<>> /\ parser = "none" /\ sections = <<>>

Init == FetchInit /\ PathIdle /\ SegIdle /\ MoreIdle

Next ==
    \/ (\E s \in Sinces, u \in BOOLEAN, ed \in Editions : Start(s, u, ed))
          /\ UNCHANGED <<pathVars, segVars, moreVars>>
    \/ RequestFails /\ UNCHANGED <<pathVars, segVars, moreVars>>
    \/ RequestMissing /\ UNCHANGED <<pathVars, segVars, moreVars>>
    \/ RequestPage /\ UNCHANGED <<pathVars, segVars, moreVars>>
    \/ Handle /\ UNCHANGED <<pathVars, segVars, moreVars>>

Spec == Init /\ [][Next]_vars

\* ---------------------------------------------------------------- construct_path alone
\* The revisions construct_path is applied to: two ids, four instants, two texts.
PathInstants == {InstantAt(1), InstantAt(2), InstantAt(4), InstantAt(6)}
PathRevisions ==
    {RevXml(RevIdAt(i), ts, ed, "ok") : i \in 1..2, ts \in PathInstants, ed \in Editions}

\* construct_path(page_name=a, save_dir=DATA_DIR, wiki_revision=rev) is evaluated.
Derive(a, rev) ==
    /\ Cardinality(derived) < MaxDerived
    /\ derived' = derived \cup
          {[article |-> a, revision |-> rev, path |-> construct_path(a, DATA_DIR, rev)]}

FetchIdle ==
    /\ server = <<>>
    /\ edition = CHOOSE ed \in Editions : TRUE
    /\ store = EmptyFn
    /\ writes = EmptyFn
    /\ pc = "idle"
    /\ since = Epoch
    /\ rvcontinue = None
    /\ buffer = <<>>
    /\ respCont = None
    /\ requests = <<>>
    /\ lastResp = NoResp
    /\ yielded = <<>>
    /\ saved_revisions = 0
    /\ outcome = "none"
    /\ error = NoError
    /\ runs = 0
    /\ recovering = FALSE
    /\ update = FALSE

PathInit == FetchIdle /\ derived = {} /\ SegIdle /\ MoreIdle

PathNext ==
    (\E a \in Articles, rev \in PathRevisions : Derive(a, rev))
        /\ UNCHANGED <<fetchVars, segVars, moreVars>>

PathSpec == PathInit /\ [][PathNext]_vars

\* ---------------------------------------------------------------- extract_sections
\* A text is a sequence of characters. "\n" is the line break and, like " ", a
\* whitespace character (\s, and what strip() removes).
Whitespace == {" ", "\n"}
Newline == "\n"

\* The pieces the input texts are built from.
Chunks == { <<"=", "=">>, <<"a">>, <<"b">>, <<Newline>>, <<"=", "=", "a", "=", "=">> }

RECURSIVE Texts(_)
Texts(n) ==
    IF n = 0 THEN { <<>> }
    ELSE LET shorter == Texts(n - 1)
         IN  shorter \cup { t \o c : t \in shorter, c \in Chunks }

\* The number of consecutive characters of t from position i on that lie in S / that
\* are no line break.
RECURSIVE RunIn(_, _, _)
RunIn(t, i, S) == IF i > Len(t) \/ t[i] \notin S THEN 0 ELSE 1 + RunIn(t, i + 1, S)

RECURSIVE DotRun(_, _)
DotRun(t, i) == IF i > Len(t) \/ t[i] = Newline THEN 0 ELSE 1 + DotRun(t, i + 1)

EqRun(t, i) == RunIn(t, i, {"="})
WsRun(t, i) == RunIn(t, i, Whitespace)

SetMax(S) == CHOOSE x \in S : \A y \in S : y <= x
SetMin(S) == CHOOSE x \in S : \A y \in S : x <= y

\* str.strip()
RECURSIVE lstrip(_)
lstrip(t) == IF t # <<>> /\ Head(t) \in Whitespace THEN lstrip(Tail(t)) ELSE t
RECURSIVE rstrip(_)
rstrip(t) ==
    IF t # <<>> /\ t[Len(t)] \in Whitespace THEN rstrip(SubSeq(t, 1, Len(t) - 1)) ELSE t
strip(t) == rstrip(lstrip(t))

\* The regular expression ==+\s*(.+?)\s*==+ matched at position i of t, as the
\* backtracking matcher does: the opening ==+ and \s* take as much as they can and
\* give back one character at a time, the group (.+?) takes as little as it can (no
\* line break: DOTALL is not set), the closing \s* and ==+ take all there is.
\* The result: <<>> when there is no match at i, else <<[start, gstart, gend, end]>>
\* (the match is t[start..end-1], the group t[gstart..gend-1]).
HeaderMatchAt(t, i) ==
    LET closes(after) == EqRun(t, after + WsRun(t, after)) >= 2
        groups(gs) == {g \in 1..DotRun(t, gs) : closes(gs + g)}
        gaps(n1) == {s1 \in 0..WsRun(t, i + n1) : groups(i + n1 + s1) # {}}
        opens == {n1 \in 2..EqRun(t, i) : gaps(n1) # {}}
    IN  IF opens = {} THEN <<>>
        ELSE LET n1 == SetMax(opens)
                 s1 == SetMax(gaps(n1))
                 gs == i + n1 + s1
                 g == SetMin(groups(gs))
                 ws == WsRun(t, gs + g)
             IN  <<[start |-> i, gstart |-> gs, gend |-> gs + g,
                    end |-> gs + g + ws + EqRun(t, gs + g + ws)]>>

\* re.finditer: the matches from position i on, left to right, not overlapping.
RECURSIVE finditer(_, _)
finditer(t, i) ==
    IF i > Len(t) THEN <<>>
    ELSE LET m == HeaderMatchAt(t, i)
         IN  IF m = <<>> THEN finditer(t, i + 1)
             ELSE m \o finditer(t, m[1].end)

Slice(t, from, to) == SubSeq(t, from, to - 1)

\* The header matches without those followed by nothing but whitespace up to the next
\* match.
HeaderMatches_skipping(t) ==
    LET ms == finditer(t, 1)
        kept == {k \in 1..Len(ms) :
                    k = Len(ms) \/ strip(Slice(t, ms[k].end, ms[k + 1].start)) # <<>>}
        nth(n) == CHOOSE k \in kept : Cardinality({j \in kept : j < k}) = n - 1
    IN  [n \in 1..Cardinality(kept) |->
            [header |-> strip(Slice(t, ms[nth(n)].gstart, ms[nth(n)].gend)),
             start_pos |-> ms[nth(n)].start, end_pos |-> ms[nth(n)].end]]

\* header_matches: (header_content, start_pos, end_pos) of every match
HeaderMatches(t) ==
    LET ms == finditer(t, 1)
    IN  [k \in 1..Len(ms) |->
            [header |-> strip(Slice(t, ms[k].gstart, ms[k].gend)),
             start_pos |-> ms[k].start, end_pos |-> ms[k].end]]

\* wiki_parser.WikiTextExtractor.extract_sections: the list of (header, section_text)
extract_sections(t) ==
    LET header_matches == HeaderMatches(t)
        n == Len(header_matches)
    IN  [k \in 1..n |->
            <<header_matches[k].header,
              IF k < n
              THEN strip(Slice(t, header_matches[k].end_pos, header_matches[k + 1].start_pos))
              ELSE strip(Slice(t, header_matches[k].end_pos, Len(t) + 1))>>]

\* text.split('\n')
RECURSIVE split(_)
split(t) ==
    LET n == DotRun(t, 1)
    IN  IF n = Len(t) THEN <<t>>
        ELSE <<SubSeq(t, 1, n)>> \o split(SubSeq(t, n + 2, Len(t)))

\* '\n'.join(lines)
RECURSIVE join(_)
join(lines) ==
    IF lines = <<>> THEN <<>>
    ELSE IF Len(lines) = 1 THEN lines[1]
    ELSE lines[1] \o <<Newline>> \o join(Tail(lines))

Introduction == <<"Introduction">>

\* sections[key] = value on a dict kept as its items in insertion order: a key that
\* is present keeps its place and gets the new value.
DictSet(d, key, value) ==
    IF \E k \in 1..Len(d) : d[k][1] = key
    THEN [k \in 1..Len(d) |-> IF d[k][1] = key THEN <<key, value>> ELSE d[k]]
    ELSE Append(d, <<key, value>>)

\* The loop of claude_wiki_parser's extract_sections over the lines left, with the
\* sections so far, the current section name and its lines so far.
RECURSIVE ScanLines(_, _, _, _)
ScanLines(lines, secs, current_section, current_text) ==
    IF lines = <<>> THEN DictSet(secs, current_section, strip(join(current_text)))
    ELSE LET line == Head(lines)
             header_match == HeaderMatchAt(line, 1)
         IN  IF header_match # <<>>
             THEN ScanLines(Tail(lines),
                            DictSet(secs, current_section, strip(join(current_text))),
                            strip(Slice(line, header_match[1].gstart, header_match[1].gend)),
                            <<>>)
             ELSE ScanLines(Tail(lines), secs, current_section, Append(current_text, line))

\* claude_wiki_parser.WikiTextExtractor.extract_sections: the dict, as its items
extract_sections_dict(t) == ScanLines(split(t), <<>>, Introduction, <<>>)

\* extract_sections of wiki_parser is applied to text.
SegmentList ==
    /\ parser = "none"
    /\ parser' = "wiki_parser"
    /\ sections' = extract_sections(text)
    /\ UNCHANGED text

\* extract_sections of claude_wiki_parser is applied to text.
SegmentDict ==
    /\ parser = "none"
    /\ parser' = "claude_wiki_parser"
    /\ sections' = extract_sections_dict(text)
    /\ UNCHANGED text

SegInit ==
    /\ FetchIdle
    /\ PathIdle
    /\ text \in Texts(MaxChunks)
    /\ parser = "none"
    /\ sections = <<>>
    /\ MoreIdle

SegNext ==
    \/ SegmentList /\ UNCHANGED <<fetchVars, pathVars, moreVars>>
    \/ SegmentDict /\ UNCHANGED <<fetchVars, pathVars, moreVars>>

SegSpec == SegInit /\ [][SegNext]_vars

\* ---------------------------------------------------------------- clean_wiki_markup
\* s occurs in t at position i.
HasAt(t, i, s) == i + Len(s) - 1 <= Len(t) /\ SubSeq(t, i, i + Len(s) - 1) = s

\* The first position from i on where s occurs in t, 0 when there is none.
Find(t, i, s) ==
    LET js == {j \in i..Len(t) : HasAt(t, j, s)}
    IN  IF js = {} THEN 0 ELSE SetMin(js)

\* The number of consecutive characters of t from position i on that lie outside S.
RECURSIVE RunOut(_, _, _)
RunOut(t, i, S) == IF i > Len(t) \/ t[i] \in S THEN 0 ELSE 1 + RunOut(t, i + 1, S)

\* The outcome of matching a pattern at one position: no match, or the position after
\* the match and the text that replaces it.
NoMatch == <<>>
Match(end, repl) == <<[end |-> end, repl |-> repl]>>

\* open.*?close under DOTALL: from open to the first close after it.
Lazy(t, i, open, close) ==
    IF ~HasAt(t, i, open) THEN NoMatch
    ELSE LET j == Find(t, i + Len(open), close)
         IN  IF j = 0 THEN NoMatch ELSE Match(j + Len(close), <<>>)

\* open[^c]+close: open, one or more characters other than c, close.
Bracketed(t, i, open, c, close) ==
    IF ~HasAt(t, i, open) THEN NoMatch
    ELSE LET r == RunOut(t, i + Len(open), {c})
         IN  IF r >= 1 /\ HasAt(t, i + Len(open) + r, close)
             THEN Match(i + Len(open) + r + Len(close), <<>>)
             ELSE NoMatch

\* [a-z\-]
LowerOrHyphen ==
    {"a", "b", "c", "d", "e", "f", "g", "h", "i", "j", "k", "l", "m", "n", "o", "p",
     "q", "r", "s", "t", "u", "v", "w", "x", "y", "z", "-"}

\* \[\[[a-z\-]+:[^\]]+\]\]
language_links(t, i) ==
    IF ~HasAt(t, i, <<"[", "[">>) THEN NoMatch
    ELSE LET l == RunIn(t, i + 2, LowerOrHyphen)
             r == RunOut(t, i + 3 + l, {"]"})
         IN  IF /\ l >= 1
                /\ HasAt(t, i + 2 + l, <<":">>)
                /\ r >= 1
                /\ HasAt(t, i + 3 + l + r, <<"]", "]">>)
             THEN Match(i + 3 + l + r + 2, <<>>)
             ELSE NoMatch

\* \[https?:[^\]]+\]
external_links(t, i) ==
    IF ~HasAt(t, i, <<"[", "h", "t", "t", "p">>) THEN NoMatch
    ELSE LET c == IF HasAt(t, i + 5, <<"s", ":">>) THEN i + 6 ELSE i + 5
             r == RunOut(t, c + 1, {"]"})
         IN  IF HasAt(t, c, <<":">>) /\ r >= 1 /\ HasAt(t, c + 1 + r, <<"]">>)
             THEN Match(c + 1 + r + 1, <<>>)
             ELSE NoMatch

\* \[\[(?:[^|\]]*\|)?([^\]]+)\]\] replaced by \1: the optional prefix takes the
\* characters up to the first pipe when one comes before any "]"; the group is then
\* what follows, up to the first "]", which "]]" must be. When the match fails with
\* the prefix it is tried without it.
wiki_link_pattern(t, i) ==
    IF ~HasAt(t, i, <<"[", "[">>) THEN NoMatch
    ELSE LET group(gs) ==
                 LET r == RunOut(t, gs, {"]"})
                 IN  IF r >= 1 /\ HasAt(t, gs + r, <<"]", "]">>)
                     THEN Match(gs + r + 2, SubSeq(t, gs, gs + r - 1))
                     ELSE NoMatch
             p == RunOut(t, i + 2, {"|", "]"})
             piped == IF HasAt(t, i + 2 + p, <<"|">>) THEN group(i + 2 + p + 1) ELSE NoMatch
         IN  IF piped # NoMatch THEN piped ELSE group(i + 2)

\* \n+ replaced by '\n'
multiple_newlines(t, i) ==
    LET n == RunIn(t, i, {Newline})
    IN  IF n >= 1 THEN Match(i + n, <<Newline>>) ELSE NoMatch

\* \s+ replaced by ' '
multiple_spaces(t, i) ==
    LET n == RunIn(t, i, Whitespace)
    IN  IF n >= 1 THEN Match(i + n, <<" ">>) ELSE NoMatch

\* The patterns of WikiTextExtractor.__init__, matched at position i of t.
MatchAt(pattern, t, i) ==
    CASE pattern = "template_pattern" -> Bracketed(t, i, <<"{", "{">>, "}", <<"}", "}">>)
      [] pattern = "file_pattern" ->
            Lazy(t, i, <<"[", "[", "F", "i", "l", "e", ":">>, <<"]", "]">>)
      [] pattern = "image_pattern" ->
            Lazy(t, i, <<"[", "[", "I", "m", "a", "g", "e", ":">>, <<"]", "]">>)
      [] pattern = "ref_pattern" ->
            Lazy(t, i, <<"<", "r", "e", "f">>, <<"<", "/", "r", "e", "f", ">">>)
      [] pattern = "ref_single_pattern" -> Lazy(t, i, <<"<", "r", "e", "f">>, <<"/", ">">>)
      [] pattern = "html_pattern" -> Bracketed(t, i, <<"<">>, ">", <<">">>)
      [] pattern = "table_pattern" -> Lazy(t, i, <<"{", "|">>, <<"|", "}">>)
      [] pattern = "category_pattern" ->
            Lazy(t, i, <<"[", "[", "C", "a", "t", "e", "g", "o", "r", "y", ":">>,
                 <<"]", "]">>)
      [] pattern = "language_links" -> language_links(t, i)
      [] pattern = "external_links" -> external_links(t, i)
      [] pattern = "wiki_link_pattern" -> wiki_link_pattern(t, i)
      [] pattern = "multiple_newlines" -> multiple_newlines(t, i)
      [] pattern = "multiple_spaces" -> multiple_spaces(t, i)

\* The replacements of clean_wiki_markup, in the order they are applied.
replacements ==
    <<"template_pattern", "file_pattern", "image_pattern", "ref_pattern",
      "ref_single_pattern", "html_pattern", "table_pattern", "category_pattern",
      "language_links", "external_links", "wiki_link_pattern", "multiple_newlines",
      "multiple_spaces">>

\* re.sub(pattern, replacement, text) from position i on: the matches are taken left
\* to right and do not overlap; no pattern matches the empty string.
RECURSIVE sub(_, _, _)
sub(pattern, t, i) ==
    IF i > Len(t) THEN <<>>
    ELSE LET m == MatchAt(pattern, t, i)
         IN  IF m = NoMatch THEN <<t[i]>> \o sub(pattern, t, i + 1)
             ELSE m[1].repl \o sub(pattern, t, m[1].end)

RECURSIVE Cascade(_, _)
Cascade(patterns, t) ==
    IF patterns = <<>> THEN t
    ELSE Cascade(Tail(patterns), sub(Head(patterns), t, 1))

\* WikiTextExtractor.clean_wiki_markup
clean_wiki_markup(t) == strip(Cascade(replacements, t))

\* The input texts of the normalizer: links, removed markup, and plain text with
\* spaces and line breaks.
LinkChunks == { <<"[", "[">>, <<"a", "|">>, <<"b">>, <<"]", "]">> }
MarkupChunks ==
    { <<"{", "{">>, <<"}", "}">>, <<"a">>, <<"<">>, <<">">>,
      <<"[", "[", "F", "i", "l", "e", ":">>, <<"]", "]">> }
PlainChunks == { <<"a">>, <<"b">>, <<" ">>, <<Newline>> }

RECURSIVE TextsOver(_, _)
TextsOver(chunks, n) ==
    IF n = 0 THEN { <<>> }
    ELSE LET shorter == TextsOver(chunks, n - 1)
         IN  shorter \cup { t \o c : t \in shorter, c \in chunks }

NormTexts ==
    TextsOver(LinkChunks, MaxLinkChunks) \cup TextsOver(MarkupChunks, MaxMarkupChunks)
        \cup TextsOver(PlainChunks, MaxPlainChunks)

\* clean_wiki_markup is applied to raw, and then to what it returned.
Normalize ==
    /\ Len(cleanings) < 2
    /\ cleanings' = Append(cleanings,
                           clean_wiki_markup(IF cleanings = <<>> THEN raw
                                             ELSE cleanings[Len(cleanings)]))
    /\ UNCHANGED raw

NormInit ==
    /\ FetchIdle
    /\ PathIdle
    /\ SegIdle
    /\ raw \in NormTexts
    /\ cleanings = <<>>
    /\ AsmIdle
    /\ ScanIdle
    /\ EvoIdle
    /\ ConcIdle

NormNext ==
    Normalize /\ UNCHANGED <<fetchVars, pathVars, segVars, asmVars, scanVars, evoVars, concVars>>

NormSpec == NormInit /\ [][NormNext]_vars

\* ---------------------------------------------------------------- process_file
\* A stored file is given by what BeautifulSoup finds in it: the string of its text
\* element, or None when it has no text element or the element has no string.
\* extract_text_from_xml returns the list of sections of the cleaned text, or a dict
\* with the one key "Error".
extract_text_from_xml(xml_content) ==
    IF xml_content # None
    THEN [type |-> "list", items |-> extract_sections(clean_wiki_markup(ValueOf(xml_content)))]
    ELSE [type |-> "dict", items |-> << <<"E", "r", "r", "o", "r">> >>]

\* for section_name, section_text in sections: every item iterated (an item of the
\* list, a key of the dict) is unpacked into two names, which raises ValueError when
\* it has not two elements.
Unpacks(item) == Len(item) = 2

\* The same loop without the test on section_text.
RECURSIVE output_text_all(_)
output_text_all(items) ==
    IF items = <<>> THEN <<>>
    ELSE <<[section_name |-> Head(items)[1], section_text |-> Head(items)[2]]>>
         \o output_text_all(Tail(items))

RECURSIVE output_text(_)
output_text(items) ==
    IF items = <<>> THEN <<>>
    ELSE (IF Head(items)[2] # <<>>
          THEN <<[section_name |-> Head(items)[1], section_text |-> Head(items)[2]]>>
          ELSE <<>>)
         \o output_text(Tail(items))

\* The loop of process_file over the value extract_text_from_xml returned: the
\* records, or None when the unpacking raised and the exception was caught and printed.
process_sections(sections_) ==
    IF \E k \in 1..Len(sections_.items) : ~Unpacks(sections_.items[k])
    THEN None
    ELSE Some(output_text(sections_.items))

\* process_file: the records of one file, or None when an exception was caught and
\* printed.
process_file(xml_content) == process_sections(extract_text_from_xml(xml_content))

\* ---------------------------------------------------------------- file_paths_to_df
\* file_data = [process_file(file) for file in file_paths], one file at a time.
ProcessFile ==
    /\ assembly = "processing"
    /\ Len(file_data) < Len(file_paths)
    /\ file_data' = Append(file_data, process_file(file_paths[Len(file_data) + 1]))
    /\ UNCHANGED <<file_paths, df, assembly>>

RECURSIVE Flatten(_)
Flatten(frames) ==
    IF frames = <<>> THEN <<>>
    ELSE (IF Head(frames) = None THEN <<>> ELSE ValueOf(Head(frames)))
         \o Flatten(Tail(frames))

\* df = pd.concat(file_data): ValueError when the list is empty or holds nothing but
\* None; otherwise the None are dropped and the frames joined in order.
Concat ==
    /\ assembly = "processing"
    /\ Len(file_data) = Len(file_paths)
    /\ IF \A k \in 1..Len(file_data) : file_data[k] = None
       THEN assembly' = "raised" /\ UNCHANGED df
       ELSE assembly' = "done" /\ df' = Flatten(file_data)
    /\ UNCHANGED <<file_paths, file_data>>

AsmNext ==
    \/ ProcessFile /\ UNCHANGED <<fetchVars, pathVars, segVars, normVars, scanVars, evoVars, concVars>>
    \/ Concat /\ UNCHANGED <<fetchVars, pathVars, segVars, normVars, scanVars, evoVars, concVars>>

\* One file with a text of up to MaxLines lines: headings, a line of text, a template.
FileLines ==
    { <<"=", "=", "a", "=", "=", Newline>>, <<"=", "=", "b", "=", "=", Newline>>,
      <<"a", Newline>>, <<"{", "{", "a", "}", "}", Newline>> }

FileInit ==
    /\ FetchIdle
    /\ PathIdle
    /\ SegIdle
    /\ NormIdle
    /\ ScanIdle
    /\ EvoIdle
    /\ ConcIdle
    /\ file_paths \in { <<c>> : c \in {None} \cup { Some(t) : t \in TextsOver(FileLines, MaxLines) } }
    /\ file_data = <<>>
    /\ df = <<>>
    /\ assembly = "processing"

FileSpec == FileInit /\ [][AsmNext]_vars

\* A listing of up to MaxFiles files: without a text body, without a heading, with
\* one section, with two.
ListedFiles ==
    { None,
      Some(<<"a">>),
      Some(<<"=", "=", "a", "=", "=", Newline, "a">>),
      Some(<<"=", "=", "a", "=", "=", Newline, "b", Newline, "=", "=", "b", "=", "=", Newline, "a">>) }

RECURSIVE Listings(_)
Listings(n) ==
    IF n = 0 THEN { <<>> }
    ELSE LET shorter == Listings(n - 1)
         IN  shorter \cup { Append(l, c) : l \in shorter, c \in ListedFiles }

AsmInit ==
    /\ FetchIdle
    /\ PathIdle
    /\ SegIdle
    /\ NormIdle
    /\ ScanIdle
    /\ EvoIdle
    /\ ConcIdle
    /\ file_paths \in Listings(MaxFiles)
    /\ file_data = <<>>
    /\ df = <<>>
    /\ assembly = "processing"

AsmSpec == AsmInit /\ [][AsmNext]_vars

\* ---------------------------------------------------------------- WikiSectionAnalyzer
\* A file is the sequence of its lines, a line a sequence of characters.
Contains(line, s) == Find(line, 1, s) # 0

\* line.count('=')
CountEq(line) == Cardinality({k \in 1..Len(line) : line[k] = "="})

\* re.match(r'^={2,}([^=]+)={2,}', line): two or more "=", one or more characters
\* other than "=", two or more "="; whatever follows on the line is not looked at.
\* <<>> when there is no match, else the lengths of the two runs of "=" and the group.
section_pattern(line) ==
    LET open == EqRun(line, 1)
        group == RunOut(line, 1 + open, {"="})
        close == EqRun(line, 1 + open + group)
    IN  IF open >= 2 /\ group >= 1 /\ close >= 2
        THEN <<[open |-> open, close |-> close,
                group |-> SubSeq(line, 1 + open, open + group)]>>
        ELSE <<>>

\* The level recorded for a heading line.
level(line) == CountEq(line) \div 2

\* The loop of extract_sections_from_wiki_xml over the lines left.
RECURSIVE ScanRev(_, _)
ScanRev(lines, in_rev_content) ==
    IF lines = <<>> THEN <<>>
    ELSE LET line == Head(lines)
             match == section_pattern(strip(line))
         IN  IF Contains(line, <<"<", "r", "e", "v">>) THEN ScanRev(Tail(lines), TRUE)
             ELSE IF Contains(line, <<"<", "/", "r", "e", "v", ">">>)
             THEN ScanRev(Tail(lines), FALSE)
             ELSE (IF in_rev_content /\ match # <<>>
                   THEN <<[title |-> strip(match[1].group), level |-> level(line)]>>
                   ELSE <<>>)
                  \o ScanRev(Tail(lines), in_rev_content)

\* WikiSectionAnalyzer.extract_sections_from_wiki_xml
extract_sections_from_wiki_xml(lines) == ScanRev(lines, FALSE)

\* extract_sections_from_wiki_xml is applied to rev_file.
ScanFile ==
    /\ scanned = None
    /\ rev_file # <<>>
    /\ scanned' = Some(extract_sections_from_wiki_xml(rev_file))
    /\ UNCHANGED rev_file

RevOpen == <<"<", "r", "e", "v", ">">>
RevClose == <<"<", "/", "r", "e", "v", ">">>

\* The lines read: a revision of one line made of up to MaxLineChunks pieces, and
\* files of up to MaxScanLines lines with the revision's tags anywhere.
LineChunks == { <<"=", "=">>, <<"=", "=", "=">>, <<"a">>, <<" ">> }
ScanLineKinds ==
    { RevOpen, RevClose, <<"=", "=", "a", "=", "=">>, <<"=", "=", "=", "b", "=", "=", "=">>,
      <<"a">> }

RECURSIVE FilesOf(_, _)
FilesOf(kinds, n) ==
    IF n = 0 THEN { <<>> }
    ELSE LET shorter == FilesOf(kinds, n - 1)
         IN  shorter \cup { Append(f, l) : f \in shorter, l \in kinds }

ScanInit ==
    /\ FetchIdle
    /\ PathIdle
    /\ SegIdle
    /\ NormIdle
    /\ AsmIdle
    /\ EvoIdle
    /\ ConcIdle
    /\ rev_file \in { <<RevOpen, l, RevClose>> : l \in TextsOver(LineChunks, MaxLineChunks) }
                       \cup (FilesOf(ScanLineKinds, MaxScanLines) \ { <<>> })
    /\ scanned = None

ScanNext ==
    ScanFile /\ UNCHANGED <<fetchVars, pathVars, segVars, normVars, asmVars, evoVars, concVars>>

ScanSpec == ScanInit /\ [][ScanNext]_vars

\* ---------------------------------------------------------------- analyze_section_evolution
\* str.isdigit() and str.endswith()
isdigit(name) == name # <<>> /\ \A k \in 1..Len(name) : \E d \in 1..10 : DigitChars[d] = name[k]
endswith(name, suffix) ==
    Len(name) >= Len(suffix) /\ SubSeq(name, Len(name) - Len(suffix) + 1, Len(name)) = suffix

\* int(digits)
RECURSIVE int(_)
int(ds) ==
    IF ds = <<>> THEN 0
    ELSE 10 * int(SubSeq(ds, 1, Len(ds) - 1))
         + (CHOOSE d \in 0..9 : DigitChars[d + 1] = ds[Len(ds)])

\* int(re.findall(r'\d+', x)[-1]): the number the last run of digits of x reads as.
LastNumber(x) ==
    LET end == SetMax({k \in 1..Len(x) : isdigit(<<x[k]>>)})
        start == SetMin({k \in 1..end : \A j \in k..end : isdigit(<<x[j]>>)})
    IN  int(SubSeq(x, start, end))

\* The order of Python's strings on file names made of digits and ".xml".
RECURSIVE StrLess(_, _)
StrLess(a, b) ==
    IF b = <<>> THEN FALSE
    ELSE IF a = <<>> THEN TRUE
    ELSE IF Head(a) = Head(b) THEN StrLess(Tail(a), Tail(b))
    ELSE IF ~isdigit(<<Head(a)>>) THEN isdigit(<<Head(b)>>)
    ELSE isdigit(<<Head(b)>>) /\ int(<<Head(a)>>) < int(<<Head(b)>>)

\* The files of a directory sorted by name: the last one.
last_by_name(files) ==
    LET xml == {f \in files : endswith(f.name, <<".", "x", "m", "l">>)}
    IN  {f \in xml : \A g \in xml : g = f \/ StrLess(g.name, f.name)}

\* get_last_revision_file: the .xml files of the directory are sorted by the number
\* in their name and the last is returned (None, here no file, when there is none).
\* os.listdir gives the files in any order and the sort is stable: of files with the
\* same number any can come last.
get_last_revision_file(files) ==
    LET xml == {f \in files : endswith(f.name, <<".", "x", "m", "l">>)}
    IN  {f \in xml : \A g \in xml : LastNumber(g.name) <= LastNumber(f.name)}

\* date_str = f"{year_dir}-{month_dir}"
date_str(dir) == dir.year \o <<"-">> \o dir.month

\* One pass of the loops of analyze_section_evolution: the next month directory, in
\* sorted order. A directory whose name is not a number, or without an .xml file, is
\* passed over.
AnalyzeMonth ==
    /\ visited < Len(base_dir)
    /\ visited' = visited + 1
    /\ LET dir == base_dir[visited + 1]
       IN  IF ~isdigit(dir.year) \/ ~isdigit(dir.month) \/ get_last_revision_file(dir.files) = {}
           THEN UNCHANGED <<section_tracker, timeline>>
           ELSE \E last_revision \in get_last_revision_file(dir.files) :
                   LET sections_ == extract_sections_from_wiki_xml(last_revision.lines)
                   IN  /\ section_tracker' =
                             section_tracker \cup
                                 { <<sections_[k].title, date_str(dir), sections_[k].level>> :
                                       k \in 1..Len(sections_) }
                       /\ timeline' = Append(timeline, date_str(dir))
    /\ UNCHANGED base_dir

\* The stores analysed: the months 01 and 02 of 2023, each with up to MaxMonthFiles
\* files, and a directory that is no month.
RevisionA == <<RevOpen, <<"=", "=", "a", "=", "=">>, RevClose>>
RevisionB == <<RevOpen, <<"=", "=", "b", "=", "=">>, <<"=", "=", "=", "a", "=", "=", "=">>, RevClose>>
MonthFileNames ==
    { <<"9", ".", "x", "m", "l">>, <<"1", "0", ".", "x", "m", "l">>,
      <<"1", "1", ".", "c", "s", "v">> }
MonthFiles ==
    { fs \in SUBSET [name : MonthFileNames, lines : {RevisionA, RevisionB}] :
         /\ Cardinality(fs) <= MaxMonthFiles
         /\ \A f, g \in fs : f.name = g.name => f = g }

EvoInit ==
    /\ FetchIdle
    /\ PathIdle
    /\ SegIdle
    /\ NormIdle
    /\ AsmIdle
    /\ ScanIdle
    /\ ConcIdle
    /\ \E m1, m2 \in MonthFiles, other \in {{}, {[name |-> <<"9", ".", "x", "m", "l">>, lines |-> RevisionA]}} :
          base_dir = << [year |-> <<"2", "0", "2", "3">>, month |-> <<"0", "1">>, files |-> m1],
                        [year |-> <<"2", "0", "2", "3">>, month |-> <<"0", "2">>, files |-> m2],
                        [year |-> <<"2", "0", "2", "3">>, month |-> <<"x", "x">>, files |-> other] >>
    /\ visited = 0
    /\ section_tracker = {}
    /\ timeline = <<>>

EvoNext ==
    AnalyzeMonth
        /\ UNCHANGED <<fetchVars, pathVars, segVars, normVars, asmVars, scanVars, concVars>>

EvoSpec == EvoInit /\ [][EvoNext]_vars

\* ---------------------------------------------------------------- concurrent runs
\* Several runs of download_revisions on the same article and store, each a process
\* of its own. Every run gets the same MaxConcRevs revisions from the generator, all
\* of them at or after its watermark; revision i is stored in file i (construct_path
\* gives each revision a file of its own). The steps of a run are the calls it makes
\* on the file system: page_directory.exists(), revision_path.exists(), and the
\* opening (which creates or empties the file) and the writing of write_text.
ConcRuns == 1..MaxConcRuns
ConcRevs == 1..MaxConcRevs

\* What run r writes into a file.
ConcText(r) == <<"rev by run", r>>

ConcGoto(r, step, at) == conc_pc' = [conc_pc EXCEPT ![r] = [step |-> step, at |-> at]]

\* The loop goes on with the revision after at, or ends.
ConcAdvance(r, at) ==
    IF at < MaxConcRevs THEN ConcGoto(r, "exists", at + 1) ELSE ConcGoto(r, "done", at)

\* if not update and page_directory.exists(): return
ConcEnter(r) ==
    /\ conc_pc[r].step = "start"
    /\ IF ~conc_update[r] /\ DOMAIN conc_store # {}
       THEN ConcGoto(r, "done", 0)
       ELSE ConcGoto(r, "exists", 1)
    /\ UNCHANGED <<conc_update, conc_store, conc_writes>>

\* if not revision_path.exists():
ConcExists(r) ==
    /\ conc_pc[r].step = "exists"
    /\ IF conc_pc[r].at \in DOMAIN conc_store
       THEN ConcAdvance(r, conc_pc[r].at)
       ELSE ConcGoto(r, "open", conc_pc[r].at)
    /\ UNCHANGED <<conc_update, conc_store, conc_writes>>

\* revision_path.parent.mkdir(parents=True, exist_ok=True) and the open(mode='w') of
\* write_text: the file is created, or emptied when it exists.
ConcOpen(r) ==
    /\ conc_pc[r].step = "open"
    /\ conc_store' = [f \in DOMAIN conc_store \cup {conc_pc[r].at} |->
                         IF f = conc_pc[r].at THEN <<>> ELSE conc_store[f]]
    /\ conc_writes' = [f \in DOMAIN conc_writes \cup {conc_pc[r].at} |->
                          IF f = conc_pc[r].at
                          THEN (IF f \in DOMAIN conc_writes THEN conc_writes[f] ELSE {}) \cup {r}
                          ELSE conc_writes[f]]
    /\ ConcGoto(r, "write", conc_pc[r].at)
    /\ UNCHANGED conc_update

\* The write and the close of write_text; saved_revisions += 1.
ConcWrite(r) ==
    /\ conc_pc[r].step = "write"
    /\ conc_store' = [f \in DOMAIN conc_store \cup {conc_pc[r].at} |->
                         IF f = conc_pc[r].at THEN ConcText(r) ELSE conc_store[f]]
    /\ ConcAdvance(r, conc_pc[r].at)
    /\ UNCHANGED <<conc_update, conc_writes>>

ConcInit ==
    /\ FetchIdle
    /\ PathIdle
    /\ SegIdle
    /\ NormIdle
    /\ AsmIdle
    /\ ScanIdle
    /\ EvoIdle
    /\ conc_update \in [ConcRuns -> BOOLEAN]
    /\ conc_pc = [r \in ConcRuns |-> [step |-> "start", at |-> 0]]
    /\ conc_store \in { EmptyFn, [f \in {1} |-> <<"rev by run", 0>>] }
    /\ conc_writes = EmptyFn

ConcNext ==
    \/ (\E r \in ConcRuns : ConcEnter(r))
          /\ UNCHANGED <<fetchVars, pathVars, segVars, normVars, asmVars, scanVars, evoVars>>
    \/ (\E r \in ConcRuns : ConcExists(r))
          /\ UNCHANGED <<fetchVars, pathVars, segVars, normVars, asmVars, scanVars, evoVars>>
    \/ (\E r \in ConcRuns : ConcOpen(r))
          /\ UNCHANGED <<fetchVars, pathVars, segVars, normVars, asmVars, scanVars, evoVars>>
    \/ (\E r \in ConcRuns : ConcWrite(r))
          /\ UNCHANGED <<fetchVars, pathVars, segVars, normVars, asmVars, scanVars, evoVars>>

ConcSpec == ConcInit /\ [][ConcNext]_vars

\* ---------------------------------------------------------------- fetcher properties
Range(q) == {q[k] : k \in 1..Len(q)}

\* The path of the file of position i of the server's history.
PathOf(i) == construct_path(Page, DATA_DIR, Rendered(server, i, edition))

WellFormed(rev) == ~Raised(find_timestamp(rev)) /\ ~Raised(extract_id(rev))

RunOver == pc = "idle" /\ runs > 0

\* C1 (idempotent write): a file of the store is never written again: in every step
\* each file present stays present with its content unchanged, and every file has
\* been written exactly once, whatever later runs meet its revision.
C1_IdempotentWrite ==
    [][/\ \A p \in DOMAIN store :
             p \in DOMAIN store' /\ store'[p] = store[p] /\ writes'[p] = writes[p]
       /\ \A p \in DOMAIN store' : writes'[p] = 1]_vars

\* A later run has met a revision that is already stored, while the server renders
\* it differently by now, and the run has ended: the file is still the first one.
C1_Witness ==
    /\ RunOver /\ runs = 2 /\ outcome = "done"
    /\ \E k \in 1..Len(yielded) :
          /\ WellFormed(yielded[k])
          /\ PassesWatermark(ValueOf(find_timestamp(yielded[k])), since)
          /\ construct_path(Page, DATA_DIR, yielded[k]) \in DOMAIN store
          /\ store[construct_path(Page, DATA_DIR, yielded[k])] # yielded[k]

\* The server answered every request of the run with a page, and no page was empty
\* while carrying a cursor.
Answered ==
    /\ error \notin {"Transport", "NotFound"}
    /\ ~(lastResp.kind = "page" /\ lastResp.n = 0 /\ lastResp.cont # None)

\* C2 (recovery by re-run): when a run repeats, with the same since, a run that a
\* transport failure aborted after it had stored revisions, and the server answers
\* every request, then at the end every revision of the server with timestamp >= since
\* is in the store and no file was written twice. (Stated for histories whose
\* revisions are all well-formed.)
C2_RecoveryByRerun ==
    (/\ RunOver /\ recovering /\ Answered
     /\ \A i \in 1..Len(server) : server[i].shape = "ok")
    => /\ \A i \in 1..Len(server) :
             DtGeq(server[i].ts, since) => PathOf(i) \in DOMAIN store
       /\ \A p \in DOMAIN store : writes[p] = 1

\* C3 (pagination): the first request carries no cursor, the request after a page
\* with a cursor carries exactly that cursor, and the generator ends normally only on
\* a response without a cursor.
C3_Pagination ==
    /\ requests # <<>> => requests[1] = None
    /\ (pc = "request" /\ lastResp.kind = "page") => rvcontinue = lastResp.cont
    /\ (RunOver /\ outcome = "done") => lastResp.cont = None

\* C4 (missing article): when the response reports the page as missing, no further
\* request is made, nothing is written, and download_revisions ends as a failure for
\* its caller, not as a normal return.
C4_MissingArticle ==
    (RunOver /\ error = "NotFound")
    => /\ lastResp.kind = "missing"
       /\ outcome = "raised"

\* C5 (watermark filter): a step writes only revisions with timestamp >= since, and
\* the well-formed revision it handles is stored after it when its timestamp is since
\* itself.
C5_WatermarkFilter ==
    [][/\ \A p \in (DOMAIN store') \ (DOMAIN store) :
             DtGeq(ValueOf(find_timestamp(store'[p])), since)
       /\ (pc = "yield" /\ WellFormed(Head(buffer))
             /\ ValueOf(find_timestamp(Head(buffer))) = since)
          => construct_path(Page, DATA_DIR, Head(buffer)) \in DOMAIN store']_vars

\* The run was served a revision older than since, which is not stored, and has
\* written a revision whose timestamp is since itself.
C5_Witness ==
    /\ pc # "idle" \/ outcome = "done"
    /\ saved_revisions > 0
    /\ \E k \in 1..Len(yielded) :
          /\ WellFormed(yielded[k])
          /\ ~DtGeq(ValueOf(find_timestamp(yielded[k])), since)
          /\ construct_path(Page, DATA_DIR, yielded[k]) \notin DOMAIN store
    /\ \E k \in 1..Len(yielded) :
          /\ WellFormed(yielded[k])
          /\ ValueOf(find_timestamp(yielded[k])) = since
          /\ construct_path(Page, DATA_DIR, yielded[k]) \in DOMAIN store
          /\ store[construct_path(Page, DATA_DIR, yielded[k])] = yielded[k]

\* C6 (fetcher ordering): the revisions yielded in a run are a contiguous slice of the
\* server's ascending history, in its order: their timestamps never decrease and no
\* revision is yielded twice.
C6_FetcherOrdering ==
    /\ \A i, j \in 1..Len(yielded) :
          (i < j /\ ~Raised(find_timestamp(yielded[i])) /\ ~Raised(find_timestamp(yielded[j])))
          => DtGeq(ValueOf(find_timestamp(yielded[j])), ValueOf(find_timestamp(yielded[i])))
    /\ \A i, j \in 1..Len(yielded) : i # j => yielded[i] # yielded[j]
    /\ yielded # <<>> =>
          \E s \in 1..Len(server) :
              \A k \in 1..Len(yielded) :
                  s + k - 1 <= Len(server) /\ yielded[k] = Rendered(server, s + k - 1, edition)

\* The generator has yielded revisions of two pages, two of them of the same instant.
C6_Witness ==
    /\ Len(requests) >= 2
    /\ Len(yielded) >= 3
    /\ \E i, j \in 1..Len(yielded) :
          /\ i # j /\ WellFormed(yielded[i]) /\ WellFormed(yielded[j])
          /\ find_timestamp(yielded[i]) = find_timestamp(yielded[j])

\* C7 (malformed revision): a yielded revision without timestamp or revid is skipped
\* and the run goes on: at the end of a run the server answered, every well-formed
\* revision with timestamp >= since that follows it in the history is in the store.
C7_MalformedSkipped ==
    (RunOver /\ outcome # "skipped" /\ Answered)
    => \A i, j \in 1..Len(server) :
          (/\ i < j
           /\ server[i].shape # "ok"
           /\ Rendered(server, i, edition) \in Range(yielded)
           /\ server[j].shape = "ok"
           /\ DtGeq(server[j].ts, since))
          => PathOf(j) \in DOMAIN store

\* C21 (implicit skip rule): a call of download_revisions with update=False, made
\* while the article's directory exists in the store, issues no request to the remote
\* API and leaves the store unchanged (no file created, modified or deleted), whatever
\* since is and whatever the directory holds: the call returns at once.
C21_ImplicitSkip ==
    [][(/\ pc = "idle" /\ runs' = runs + 1
        /\ ~update'
        /\ \E p \in DOMAIN store : IsPrefix(PageDirectory(Page), p))
       => /\ store' = store
          /\ writes' = writes
          /\ requests' = <<>>
          /\ pc' = "idle"]_vars

\* A second call, with update=False and another since than the first one's default,
\* has returned while the directory held files, one of them not what the server
\* serves by now.
C21_Witness ==
    /\ RunOver /\ runs = 2
    /\ ~update
    /\ since # Epoch
    /\ requests = <<>>
    /\ Cardinality(DOMAIN store) >= 2
    /\ \E i \in 1..Len(server) :
          /\ server[i].shape = "ok"
          /\ PathOf(i) \in DOMAIN store
          /\ store[PathOf(i)] # Rendered(server, i, edition)

\* ---------------------------------------------------------------- path properties
RECURSIVE DigitsValue(_)
DigitsValue(ds) ==
    IF ds = <<>> THEN 0
    ELSE 10 * DigitsValue(SubSeq(ds, 1, Len(ds) - 1))
         + (CHOOSE d \in 0..9 : DigitChars[d + 1] = ds[Len(ds)])

\* C8 (stored path): every derived path is <store_root>/<article>/<year>/<month, two
\* digits, zero-padded>/<revision_id>.xml with year and month those of the revision's
\* own timestamp; the same article and revision give the same path; two revisions
\* with different (article, revision_id) never get the same path.
C8_StoredPath ==
    /\ \A e \in derived :
          LET ts == ValueOf(find_timestamp(e.revision))
              id == ValueOf(extract_id(e.revision))
              n == Len(DATA_DIR) + Len(e.article)
          IN  /\ Len(e.path) = n + 3
              /\ SubSeq(e.path, 1, n) = DATA_DIR \o e.article
              /\ DigitsValue(e.path[n + 1]) = ts.year
              /\ Len(e.path[n + 2]) = 2 /\ DigitsValue(e.path[n + 2]) = ts.month
              /\ e.path[n + 3] = id \o <<".xml">>
    /\ \A e1, e2 \in derived :
          (/\ e1.article = e2.article
           /\ extract_id(e1.revision) = extract_id(e2.revision)
           /\ find_timestamp(e1.revision) = find_timestamp(e2.revision))
          => e1.path = e2.path
    /\ \A e1, e2 \in derived :
          e1.path = e2.path
          => e1.article = e2.article /\ extract_id(e1.revision) = extract_id(e2.revision)

\* Two paths were derived for the same revision id and the same one-digit month in two
\* different articles, the directory of one inside that of the other, and they differ.
C8_Witness ==
    \E e1, e2 \in derived :
        /\ e1.article # e2.article
        /\ IsPrefix(e1.article, e2.article)
        /\ e1.revision = e2.revision
        /\ ValueOf(find_timestamp(e1.revision)).month < 10
        /\ e1.path # e2.path

\* ---------------------------------------------------------------- segmenter properties
\* The headings of a text as each extractor finds them: wiki_parser by the positions
\* of the matches in the whole text, claude_wiki_parser by the lines that start with
\* a match.
RECURSIVE HeadingLineNames(_)
HeadingLineNames(lines) ==
    IF lines = <<>> THEN <<>>
    ELSE LET m == HeaderMatchAt(Head(lines), 1)
         IN  (IF m = <<>> THEN <<>>
              ELSE <<strip(Slice(Head(lines), m[1].gstart, m[1].gend))>>)
             \o HeadingLineNames(Tail(lines))

HeadingNames(t, p) ==
    IF p = "wiki_parser"
    THEN [k \in 1..Len(HeaderMatches(t)) |-> HeaderMatches(t)[k].header]
    ELSE HeadingLineNames(split(t))

\* The text that precedes the first heading (the whole text when there is none).
RECURSIVE LinesBeforeHeading(_)
LinesBeforeHeading(lines) ==
    IF lines = <<>> \/ HeaderMatchAt(Head(lines), 1) # <<>> THEN <<>>
    ELSE <<Head(lines)>> \o LinesBeforeHeading(Tail(lines))

Preamble(t, p) ==
    IF p = "wiki_parser"
    THEN (IF HeaderMatches(t) = <<>> THEN t ELSE Slice(t, 1, HeaderMatches(t)[1].start_pos))
    ELSE join(LinesBeforeHeading(split(t)))

SectionNames(secs) == [k \in 1..Len(secs) |-> secs[k][1]]

\* C9 (Introduction section): when text precedes the first heading, the first section
\* returned is named Introduction and its body is that text, trimmed; with no heading
\* at all it is the only section.
C9_IntroductionSection ==
    (parser # "none" /\ strip(Preamble(text, parser)) # <<>>)
    => /\ sections # <<>>
       /\ sections[1] = <<Introduction, strip(Preamble(text, parser))>>
       /\ HeadingNames(text, parser) = <<>> => Len(sections) = 1

\* C10 (duplicate headings): the sections returned, the Introduction aside, carry the
\* names of the headings of the text, one section per heading occurrence, in document
\* order: a heading that occurs k times gives k sections.
C10_DuplicateHeadings ==
    parser # "none"
    => LET named == IF sections # <<>> /\ sections[1][1] = Introduction
                    THEN Tail(sections) ELSE sections
       IN  SectionNames(named) = HeadingNames(text, parser)

\* ---------------------------------------------------------------- normalizer properties
\* C13 (normalizer idempotence): clean_wiki_markup applied to its own output returns
\* that output unchanged.
C13_NormalizerIdempotence == Len(cleanings) = 2 => cleanings[2] = cleanings[1]

\* C14 (normalizer markup-freedom): what clean_wiki_markup returns holds no "{{", no
\* "[[File:" and no HTML tag, that is no "<", one or more characters other than ">",
\* ">".
C14_MarkupFreedom ==
    cleanings # <<>>
    => \A i \in 1..Len(cleanings[1]) :
          /\ ~HasAt(cleanings[1], i, <<"{", "{">>)
          /\ ~HasAt(cleanings[1], i, <<"[", "[", "F", "i", "l", "e", ":">>)
          /\ Bracketed(cleanings[1], i, <<"<">>, ">", <<">">>) = NoMatch

\* An internal link and nothing else: "[[", a target and display segments separated by
\* pipes, free of brackets and of the colon of a File:, Image:, Category: or language
\* prefix, "]]"; its display text is what follows the last pipe (the whole of it when
\* there is no pipe).
LinkBody(t) == SubSeq(t, 3, Len(t) - 2)
DisplayText(body) ==
    SubSeq(body, SetMax({0} \cup {k \in 1..Len(body) : body[k] = "|"}) + 1, Len(body))
IsInternalLink(t) ==
    /\ Len(t) >= 5
    /\ HasAt(t, 1, <<"[", "[">>)
    /\ HasAt(t, Len(t) - 1, <<"]", "]">>)
    /\ \A k \in 1..Len(LinkBody(t)) : LinkBody(t)[k] \notin {"[", "]", ":"}
    /\ strip(DisplayText(LinkBody(t))) # <<>>

\* C15 (internal-link rewriting): an internal link with a display text is replaced by
\* that display text alone, the segment after its last pipe.
C15_InternalLinkRewriting ==
    (cleanings # <<>> /\ IsInternalLink(raw))
    => cleanings[1] = strip(DisplayText(LinkBody(raw)))

\* A text of letters, spaces and line breaks, and the same text with every run of
\* spaces replaced by one space and every run of line breaks by one line break.
IsPlainText(t) == \A k \in 1..Len(t) : t[k] \in {"a", "b", " ", Newline}
RECURSIVE CollapseRuns(_)
CollapseRuns(t) ==
    IF Len(t) < 2 THEN t
    ELSE IF t[1] \in {" ", Newline} /\ t[2] = t[1] THEN CollapseRuns(Tail(t))
    ELSE <<t[1]>> \o CollapseRuns(Tail(t))

\* C19 (whitespace collapsing): on plain text clean_wiki_markup returns the text with
\* its runs of spaces and of line breaks collapsed to one each, and trimmed: the line
\* breaks between lines stay line breaks.
C19_WhitespaceCollapsing ==
    (cleanings # <<>> /\ IsPlainText(raw))
    => cleanings[1] = strip(CollapseRuns(raw))

\* ---------------------------------------------------------------- assembler properties
\* The sections of the text of a file, as the normalizer and the segmenter give them.
Segmented(xml_content) == extract_sections(clean_wiki_markup(ValueOf(xml_content)))

\* The position in secs of its r-th section with a non-empty body.
NonEmptyAt(secs, r) ==
    CHOOSE j \in 1..Len(secs) :
        /\ secs[j][2] # <<>>
        /\ Cardinality({i \in 1..(j - 1) : secs[i][2] # <<>>}) = r - 1

\* C11 (corpus assembly of one revision): process_file returns one record for every
\* segmented section with a non-empty body and none for a section with an empty
\* body, the records in the document order of the sections.
C11_ProcessFile ==
    \A k \in 1..Len(file_data) :
        file_paths[k] # None
        => /\ file_data[k] # None
           /\ LET secs == Segmented(file_paths[k])
                  recs == ValueOf(file_data[k])
              IN  /\ Len(recs) = Cardinality({j \in 1..Len(secs) : secs[j][2] # <<>>})
                  /\ \A r \in 1..Len(recs) :
                        recs[r] = [section_name |-> secs[NonEmptyAt(secs, r)][1],
                                   section_text |-> secs[NonEmptyAt(secs, r)][2]]

\* A file with an empty-body section between two sections that have a body has been
\* processed.
C11_Witness ==
    /\ Len(file_data) = 1
    /\ file_paths[1] # None
    /\ file_data[1] # None
    /\ Len(ValueOf(file_data[1])) >= 2
    /\ \E i, j, k \in 1..Len(Segmented(file_paths[1])) :
          /\ i < j /\ j < k
          /\ Segmented(file_paths[1])[i][2] # <<>>
          /\ Segmented(file_paths[1])[j][2] = <<>>
          /\ Segmented(file_paths[1])[k][2] # <<>>

\* The records of the revisions of a listing that have a text body, in listing order.
RECURSIVE RecordsOf(_)
RecordsOf(listing) ==
    IF listing = <<>> THEN <<>>
    ELSE (IF Head(listing) = None THEN <<>>
          ELSE LET secs == Segmented(Head(listing))
                   n == Cardinality({j \in 1..Len(secs) : secs[j][2] # <<>>})
               IN  [r \in 1..n |-> [section_name |-> secs[NonEmptyAt(secs, r)][1],
                                    section_text |-> secs[NonEmptyAt(secs, r)][2]]])
         \o RecordsOf(Tail(listing))

\* C20 (per-revision parse issues do not abort the batch): when the listing holds
\* revisions without a text body, at any position and in any number, the assembly
\* completes, and with the records of the other revisions.
C20_BatchNotAborted ==
    (assembly \in {"done", "raised"} /\ \E k \in 1..Len(file_paths) : file_paths[k] = None)
    => assembly = "done" /\ df = RecordsOf(file_paths)

\* ---------------------------------------------------------------- evolution tracker properties
\* The lines of rev_file that are recorded as headings, in order: those inside the
\* revision whose stripped text starts with a heading.
RECURSIVE RecordedLines(_, _)
RecordedLines(lines, inside) ==
    IF lines = <<>> THEN <<>>
    ELSE IF Contains(Head(lines), <<"<", "r", "e", "v">>) THEN RecordedLines(Tail(lines), TRUE)
    ELSE IF Contains(Head(lines), RevClose) THEN RecordedLines(Tail(lines), FALSE)
    ELSE (IF inside /\ section_pattern(strip(Head(lines))) # <<>>
          THEN <<Head(lines)>> ELSE <<>>)
         \o RecordedLines(Tail(lines), inside)

\* The number of "=" that frame the heading of a heading line: its opening and its
\* closing run.
Framing(line) ==
    section_pattern(strip(line))[1].open + section_pattern(strip(line))[1].close

\* C18 (heading level in the evolution tracker): every heading recorded has for level
\* the number of "=" framing it divided by two (n on each side: level n), and no
\* level is below 2.
C18_HeadingLevel ==
    scanned # None
    => LET heads == RecordedLines(rev_file, FALSE)
           recs == ValueOf(scanned)
       IN  /\ Len(recs) = Len(heads)
           /\ \A k \in 1..Len(recs) :
                 /\ recs[k].level = Framing(heads[k]) \div 2
                 /\ recs[k].level >= 2

\* The .xml files of a month directory, the entry recorded for its date, and the
\* headings of one file.
RevisionFiles(dir) == {f \in dir.files : endswith(f.name, <<".", "x", "m", "l">>)}
EntryOf(dir) == { <<e[1], e[3]>> : e \in {x \in section_tracker : x[2] = date_str(dir)} }
HeadingsOf(f) ==
    { <<extract_sections_from_wiki_xml(f.lines)[k].title,
        extract_sections_from_wiki_xml(f.lines)[k].level>> :
          k \in 1..Len(extract_sections_from_wiki_xml(f.lines)) }
IsMonth(dir) == isdigit(dir.year) /\ isdigit(dir.month)

\* C12 as stated (evolution monthly sampling): the entry of every month directory
\* analysed that holds two or more revision files is made of the headings of the
\* revision whose id comes last in lexicographic order, and of no other.
C12_LexicographicallyLast ==
    \A k \in 1..visited :
        (IsMonth(base_dir[k]) /\ Cardinality(RevisionFiles(base_dir[k])) >= 2)
        => \A f \in last_by_name(base_dir[k].files) : EntryOf(base_dir[k]) = HeadingsOf(f)

\* C12, amended: the entry of every month directory analysed that holds two or more
\* revision files is made of the headings of the revision whose id is the greatest
\* number, and of no other.
C12_NumericallyLast ==
    \A k \in 1..visited :
        (IsMonth(base_dir[k]) /\ Cardinality(RevisionFiles(base_dir[k])) >= 2)
        => \A f \in RevisionFiles(base_dir[k]) :
              (\A g \in RevisionFiles(base_dir[k]) : LastNumber(g.name) <= LastNumber(f.name))
              => EntryOf(base_dir[k]) = HeadingsOf(f)

\* A month with two revisions of different headings has been analysed.
C12_Witness ==
    \E k \in 1..visited :
        /\ IsMonth(base_dir[k])
        /\ \E f, g \in RevisionFiles(base_dir[k]) :
              /\ LastNumber(g.name) < LastNumber(f.name)
              /\ HeadingsOf(f) # HeadingsOf(g)
              /\ EntryOf(base_dir[k]) = HeadingsOf(f)

\* ---------------------------------------------------------------- concurrency properties
\* C16 (concurrent fetch runs): in every interleaving of the runs each revision file
\* is opened for writing by at most one run, and so is never written again once it
\* exists.
C16_AtomicCreate ==
    \A f \in DOMAIN conc_writes : Cardinality(conc_writes[f]) <= 1

\* ---------------------------------------------------------------- empty-body sections
\* A heading line: two or more "=", a name of letters, two or more "=", and nothing
\* else. A text is well formed when "=" occurs in its heading lines only.
IsHeadingLine(line) ==
    LET open == EqRun(line, 1)
        name == RunIn(line, 1 + open, {"a", "b"})
        close == EqRun(line, 1 + open + name)
    IN  open >= 2 /\ name >= 1 /\ close >= 2 /\ open + name + close = Len(line)
NameOfHeading(line) == SubSeq(line, 1 + EqRun(line, 1), EqRun(line, 1) + RunIn(line, 1 + EqRun(line, 1), {"a", "b"}))
IsWellFormedText(t) ==
    \A k \in 1..Len(split(t)) : IsHeadingLine(split(t)[k]) \/ "=" \notin Range(split(t)[k])

\* The positions among the lines of t of its heading lines, in order.
HeadingLinesOf(t) == {k \in 1..Len(split(t)) : IsHeadingLine(split(t)[k])}
NthHeadingLine(t, n) ==
    CHOOSE k \in HeadingLinesOf(t) : Cardinality({j \in HeadingLinesOf(t) : j < k}) = n - 1

====
